---- MODULE Spec2Model ----
(***************************************************************************)
(* Retry / RetryWithResult of package utils (retry.go): exponential        *)
(* backoff with jitter, a cap on the delay, a retryability predicate and   *)
(* cancellation through a context.                                         *)
(*                                                                         *)
(* Durations are integers (time.Duration is an int64 count of ticks).      *)
(* Factor, Jitter and the values of rand.Float64() are dyadic rationals    *)
(* <<numerator, denominator>>, for which the float64 arithmetic of the     *)
(* source is exact; time.Duration(x) truncates toward zero, and is         *)
(* implementation-dependent when x does not fit the integer type.          *)
(*                                                                         *)
(* After it, each with a specification of its own: package file            *)
(* (WriteToFile, SafeCopyFile), the transactions of dbops and db, package  *)
(* contextdemo, FetchURL and PostJSON of package network, and the          *)
(* recovering wrappers SafeExecute, SafeCall and ExecuteWithRecover.       *)
(***************************************************************************)
EXTENDS Integers, Sequences, FiniteSets, TLC

VARIABLES
    opts,          \* the RetryOptions value both calls are given
    rng,           \* the state of math/rand's package-level generator
    pc,            \* pc[c]: where call c is in Retry
    attempt,       \* attempt[c]: the loop variable
    currentDelay,  \* currentDelay[c]
    err,           \* err[c]: the local err
    ctxErr,        \* ctxErr[c]: what ctx.Err() returns for the call's context
    result,        \* result[c]: the value Retry returned
    calls,         \* calls[c]: invocations of fn begun so far
    outcomes,      \* outcomes[c]: what each finished invocation of fn returned
    waits,         \* waits[c]: every duration handed to time.After
    draws,         \* draws[c]: every value the call got from rand.Float64
    seeded,        \* seeded[c]: the seed the call gave rand.Seed
    cancelledAt,   \* cancelledAt[c]: where the call was when its context was cancelled
    wr,            \* the call of RetryWithResult: its locals, what it returned, its history
    fo,            \* the call of WriteToFile or SafeCopyFile, and the file system
    dbt,           \* the call of ExecuteInTransaction or ExecuteTransaction, and the database
    cx,            \* the call of a function of package contextdemo, and its context
    net,           \* the call of FetchURL or PostJSON: its locals, its context, its history
    pr,            \* the call of SafeExecute, SafeCall or ExecuteWithRecover
    sim            \* the call of simulateConcurrentOperations and its three workers

(* The variables of Retry's calls. *)
retryVars == <<opts, rng, pc, attempt, currentDelay, err, ctxErr, result, calls,
               outcomes, waits, draws, seeded, cancelledAt>>

(* The variables of the other functions. *)
otherVars == <<wr, fo, dbt, cx, net, pr, sim>>

vars == <<retryVars, otherVars>>

-----------------------------------------------------------------------------
(* Bounds of the model *)

MaxRetriesBound == 3
DrawDen == 4
MaxDuration == 1000000

MinDuration == -MaxDuration - 1

Procs == {1, 2}

(* Call 1 is given a context that can be cancelled, call 2 is given        *)
(* context.Background().                                                   *)
Cancellable == {1}

-----------------------------------------------------------------------------
(* Values *)

Nil == "nil"
ErrTransient == "ErrTransient"
Canceled == "context.Canceled"

Failures == {ErrTransient, Canceled}
OpResults == {Nil} \cup Failures

(* A RetryableFunc is nil, or a predicate given by the errors it accepts:  *)
(* one that retries transient failures only, and the one of                *)
(* DefaultRetryOptions, which accepts every error.                         *)
NilFunc == [isNil |-> TRUE, accepts |-> {}]
RetryableFuncs ==
    {NilFunc,
     [isNil |-> FALSE, accepts |-> {ErrTransient}],
     [isNil |-> FALSE, accepts |-> Failures]}

RetryOptions ==
    [MaxRetries : -1 .. MaxRetriesBound,
     BaseDelay : {1, 100, MaxDuration},
     MaxDelay : {50, 1000},
     Factor : {<<3, 2>>, <<2, 1>>},
     Jitter : {<<0, 1>>, <<1, 2>>, <<1, 1>>},
     RetryableFunc : RetryableFuncs]

Seeds == 0 .. (DrawDen * DrawDen - 1)

-----------------------------------------------------------------------------
(* math/rand's package-level generator: an additive generator whose whole  *)
(* state is set by Seed and advanced by every Float64.                     *)

RandSeed(seed) == [x |-> seed % DrawDen, k |-> seed \div DrawDen]

RandFloat64(g) == <<g.x, DrawDen>>

RandAdvance(g) == [g EXCEPT !.x = (g.x + g.k) % DrawDen]

RECURSIVE RandAfter(_, _)
RandAfter(g, n) == IF n = 0 THEN g ELSE RandAfter(RandAdvance(g), n - 1)

-----------------------------------------------------------------------------
(* The delay computation, lines 59-73 *)

Trunc(n, d) == IF n >= 0 THEN n \div d ELSE -((-n) \div d)

(* opts.RetryableFunc(err), line 50 *)
IsRetryable(o, e) == e \in o.RetryableFunc.accepts

(* Line 50 without its test of err == nil. *)
ShouldReturnUnlessNil(o, e) == ~o.RetryableFunc.isNil /\ ~IsRetryable(o, e)

(* Line 50 without its call of RetryableFunc. *)
ShouldReturnOnSuccessOnly(o, e) == e = Nil

(* Line 50 calling a nil RetryableFunc as one that accepts no error. *)
ShouldReturnNilFuncTerminal(o, e) == e = Nil \/ ~IsRetryable(o, e)

(* The condition of line 50 *)
ShouldReturn(o, e) ==
    e = Nil \/ (~o.RetryableFunc.isNil /\ ~IsRetryable(o, e))

(* Line 55 one attempt early. *)
LastAttemptEarly(o, a) == a >= o.MaxRetries - 1

(* Line 55 left out: the wait follows every failed attempt. *)
LastAttemptNever(o, a) == FALSE

(* The condition of line 55 *)
LastAttempt(o, a) == a = o.MaxRetries

UsesJitter(o) == o.Jitter[1] > 0

JitterFactor(o, u) ==
    IF UsesJitter(o)
    THEN <<u[2] * o.Jitter[2] + (2 * u[1] - u[2]) * o.Jitter[1], u[2] * o.Jitter[2]>>
    ELSE <<1, 1>>

ToDuration(n, d) ==
    LET t == Trunc(n, d)
    IN  IF t > MaxDuration \/ t < MinDuration
        THEN {MinDuration, MaxDuration}
        ELSE {t}

ScaledDelays(o, cur, j) ==
    ToDuration(cur * o.Factor[1] * j[1], o.Factor[2] * j[2])

(* Lines 68-70 left out. *)
CapDelayMissing(o, d) == d

(* Lines 68-70 *)
CapDelay(o, d) == IF d > o.MaxDelay THEN o.MaxDelay ELSE d

NextDelays(o, cur, j) == {CapDelay(o, d) : d \in ScaledDelays(o, cur, j)}

-----------------------------------------------------------------------------
(* Positions of a call *)

Returns == {"return51", "return56", "return79", "return86"}

Returned(c) == pc[c] \in Returns

Last(s) == s[Len(s)]

(* The state before any call: the generator as the runtime seeds it, the   *)
(* calls in `callers` about to be made with options o.                     *)
InitWith(callers, options) ==
    /\ opts \in options
    /\ rng = RandSeed(1)
    /\ pc = [c \in Procs |-> IF c \in callers THEN "idle" ELSE "unused"]
    /\ attempt = [c \in Procs |-> 0]
    /\ currentDelay = [c \in Procs |-> 0]
    /\ err = [c \in Procs |-> Nil]
    /\ ctxErr = [c \in Procs |-> Nil]
    /\ result = [c \in Procs |-> Nil]
    /\ calls = [c \in Procs |-> 0]
    /\ outcomes = [c \in Procs |-> <<>>]
    /\ waits = [c \in Procs |-> <<>>]
    /\ draws = [c \in Procs |-> <<>>]
    /\ seeded = [c \in Procs |-> 0]
    /\ cancelledAt = [c \in Procs |-> "never"]

(* No call of RetryWithResult is made. *)
WUnused ==
    [pc |-> "unused", attempt |-> 0, currentDelay |-> 0, result |-> "zero",
     err |-> Nil, ctxErr |-> Nil, ret |-> <<>>, calls |-> 0, waits |-> <<>>,
     rng |-> RandSeed(1), got |-> "zero"]

(* No function of package file is called. *)
FoUnused ==
    [fn |-> "none", pc |-> "unused", src |-> "a", dst |-> "a", data |-> "",
     disk |-> <<>>, before |-> <<>>, err |-> Nil, ret |-> Nil, success |-> FALSE,
     failed |-> {}]

(* No transaction is run. An error is the chain of its wrappers and its    *)
(* cause, <<>> is nil.                                                     *)
DbtUnused ==
    [fn |-> "none", pc |-> "unused", db |-> {}, db0 |-> {}, pending |-> {},
     written |-> {}, tx |-> "none", todo |-> <<>>, fnErr |-> <<>>, ret |-> <<>>,
     ctxErr |-> <<>>, commits |-> <<>>]

(* No function of package contextdemo is called. *)
CxUnused ==
    [fn |-> "none", pc |-> "unused", kind |-> "cancel", ctxErr |-> <<>>, i |-> 0,
     ret |-> <<>>]

(* Neither FetchURL nor PostJSON is called. *)
NetUnused ==
    [fn |-> "none", pc |-> "unused", maxRetries |-> 0, urlOk |-> TRUE, retry |-> 0,
     lastErr |-> <<>>, ctxErr |-> <<>>, ret |-> <<>>, attempts |-> 0, waits |-> <<>>,
     checkedAt |-> -1, cancelledAt |-> "never", attemptsAtCancel |-> 0,
     startedCancelled |-> 0]

(* None of the recovering wrappers is called. *)
PrUnused ==
    [fn |-> "none", pc |-> "unused", does |-> [panics |-> FALSE, result |-> "", err |-> <<>>],
     panicnil |-> TRUE, result |-> "", err |-> <<>>, panicking |-> FALSE,
     value |-> "none"]

(* simulateConcurrentOperations is not called. *)
SimUnused ==
    [pc |-> "unused", i |-> 1, wg |-> 0, mu |-> 0, firstErr |-> Nil, cancelled |-> FALSE,
     ret |-> Nil, w |-> <<>>, entered |-> <<>>, assigns |-> <<>>]

(* The functions outside `used` are not called. *)
Unused(used) ==
    /\ IF "wr" \in used THEN TRUE ELSE wr = WUnused
    /\ IF "fo" \in used THEN TRUE ELSE fo = FoUnused
    /\ IF "dbt" \in used THEN TRUE ELSE dbt = DbtUnused
    /\ IF "cx" \in used THEN TRUE ELSE cx = CxUnused
    /\ IF "net" \in used THEN TRUE ELSE net = NetUnused
    /\ IF "pr" \in used THEN TRUE ELSE pr = PrUnused
    /\ IF "sim" \in used THEN TRUE ELSE sim = SimUnused

(* The variables of the functions outside `used` stay as they are. *)
Frame(used) ==
    /\ IF "retry" \in used THEN TRUE ELSE UNCHANGED retryVars
    /\ IF "wr" \in used THEN TRUE ELSE UNCHANGED wr
    /\ IF "fo" \in used THEN TRUE ELSE UNCHANGED fo
    /\ IF "dbt" \in used THEN TRUE ELSE UNCHANGED dbt
    /\ IF "cx" \in used THEN TRUE ELSE UNCHANGED cx
    /\ IF "net" \in used THEN TRUE ELSE UNCHANGED net
    /\ IF "pr" \in used THEN TRUE ELSE UNCHANGED pr
    /\ IF "sim" \in used THEN TRUE ELSE UNCHANGED sim

(* One call of Retry. *)
Init == InitWith({1}, RetryOptions) /\ Unused({})

(* Two goroutines call Retry with the same options. *)
ConcRetryOptions ==
    {o \in RetryOptions :
        /\ o.MaxRetries \in {-1, 1}
        /\ o.BaseDelay = 100
        /\ o.MaxDelay = 1000
        /\ o.Factor = <<2, 1>>
        /\ o.Jitter = <<1, 2>>
        /\ o.RetryableFunc = NilFunc}

InitConc == InitWith(Procs, ConcRetryOptions) /\ Unused({})

(* Retry is not called. *)
NoRetry == InitWith({}, {o \in ConcRetryOptions : o.MaxRetries = -1})

LoopHead(c, a) == IF a <= opts.MaxRetries THEN "line47" ELSE "line86"

(* Lines 36-45: seed the generator, set currentDelay, enter the loop. *)
Start(c) ==
    /\ pc[c] = "idle"
    /\ \E seed \in Seeds :
          /\ rng' = RandSeed(seed)
          /\ seeded' = [seeded EXCEPT ![c] = seed]
    /\ currentDelay' = [currentDelay EXCEPT ![c] = opts.BaseDelay]
    /\ attempt' = [attempt EXCEPT ![c] = 0]
    /\ pc' = [pc EXCEPT ![c] = LoopHead(c, 0)]
    /\ UNCHANGED <<opts, err, ctxErr, result, calls, outcomes, waits, draws, cancelledAt>>

(* Line 47 behind a test of ctx.Err(), as a loop that checks for           *)
(* cancellation before every attempt would have it.                        *)
InvokeBeginUnlessCancelled(c) ==
    /\ pc[c] = "line47"
    /\ IF ctxErr[c] # Nil
       THEN /\ result' = [result EXCEPT ![c] = ctxErr[c]]
            /\ pc' = [pc EXCEPT ![c] = "return79"]
            /\ calls' = calls
       ELSE /\ calls' = [calls EXCEPT ![c] = @ + 1]
            /\ pc' = [pc EXCEPT ![c] = "inflight"]
            /\ result' = result
    /\ UNCHANGED <<opts, rng, attempt, currentDelay, err, ctxErr, outcomes,
                   waits, draws, seeded, cancelledAt>>

(* Line 47: fn is called. *)
InvokeBegin(c) ==
    /\ pc[c] = "line47"
    /\ calls' = [calls EXCEPT ![c] = @ + 1]
    /\ pc' = [pc EXCEPT ![c] = "inflight"]
    /\ UNCHANGED <<opts, rng, attempt, currentDelay, err, ctxErr, result, outcomes,
                   waits, draws, seeded, cancelledAt>>

(* Lines 47-57 keeping the first failure and returning that one at line   *)
(* 56.                                                                     *)
InvokeEndFirstFailure(c) ==
    /\ pc[c] = "inflight"
    /\ \E e \in OpResults :
          /\ err' = [err EXCEPT ![c] = e]
          /\ outcomes' = [outcomes EXCEPT ![c] = Append(@, e)]
          /\ IF ShouldReturn(opts, e)
             THEN /\ result' = [result EXCEPT ![c] = e]
                  /\ pc' = [pc EXCEPT ![c] = "return51"]
             ELSE IF LastAttempt(opts, attempt[c])
             THEN /\ result' = [result EXCEPT ![c] = outcomes'[c][1]]
                  /\ pc' = [pc EXCEPT ![c] = "return56"]
             ELSE /\ result' = result
                  /\ pc' = [pc EXCEPT ![c] = "line60"]
    /\ UNCHANGED <<opts, rng, attempt, currentDelay, ctxErr, calls, waits, draws,
                   seeded, cancelledAt>>

(* Lines 47-57: fn returns e; Retry returns it when it is nil, not         *)
(* retryable, or the failure of the last attempt.                          *)
InvokeEnd(c) ==
    /\ pc[c] = "inflight"
    /\ \E e \in OpResults :
          /\ err' = [err EXCEPT ![c] = e]
          /\ outcomes' = [outcomes EXCEPT ![c] = Append(@, e)]
          /\ IF ShouldReturn(opts, e)
             THEN /\ result' = [result EXCEPT ![c] = e]
                  /\ pc' = [pc EXCEPT ![c] = "return51"]
             ELSE IF LastAttempt(opts, attempt[c])
             THEN /\ result' = [result EXCEPT ![c] = e]
                  /\ pc' = [pc EXCEPT ![c] = "return56"]
             ELSE /\ result' = result
                  /\ pc' = [pc EXCEPT ![c] = "line60"]
    /\ UNCHANGED <<opts, rng, attempt, currentDelay, ctxErr, calls, waits, draws,
                   seeded, cancelledAt>>

(* Lines 59-76: draw the jitter, scale and cap the delay, arm the timer. *)
Backoff(c) ==
    /\ pc[c] = "line60"
    /\ LET u == RandFloat64(rng)
           j == JitterFactor(opts, u)
       IN  /\ \E nextDelay \in NextDelays(opts, currentDelay[c], j) :
                 /\ currentDelay' = [currentDelay EXCEPT ![c] = nextDelay]
                 /\ waits' = [waits EXCEPT ![c] = Append(@, nextDelay)]
           /\ IF UsesJitter(opts)
              THEN /\ rng' = RandAdvance(rng)
                   /\ draws' = [draws EXCEPT ![c] = Append(@, u)]
              ELSE UNCHANGED <<rng, draws>>
    /\ pc' = [pc EXCEPT ![c] = "select"]
    /\ UNCHANGED <<opts, attempt, err, ctxErr, result, calls, outcomes, seeded,
                   cancelledAt>>

(* Line 76: the select finds the cases that are ready and takes one of     *)
(* them, or blocks. The timer may have run out already.                    *)
SelectPoll(c) ==
    /\ pc[c] = "select"
    /\ \E timerReady \in BOOLEAN :
          LET ready == (IF ctxErr[c] # Nil THEN {"case77"} ELSE {})
                         \cup (IF timerReady THEN {"case80"} ELSE {})
          IN  IF ready = {}
              THEN pc' = [pc EXCEPT ![c] = "parked"]
              ELSE \E k \in ready : pc' = [pc EXCEPT ![c] = k]
    /\ UNCHANGED <<opts, rng, attempt, currentDelay, err, ctxErr, result, calls,
                   outcomes, waits, draws, seeded, cancelledAt>>

(* The timer of time.After runs out while the call is blocked in select. *)
TimerFire(c) ==
    /\ pc[c] = "parked"
    /\ pc' = [pc EXCEPT ![c] = "case80"]
    /\ UNCHANGED <<opts, rng, attempt, currentDelay, err, ctxErr, result, calls,
                   outcomes, waits, draws, seeded, cancelledAt>>

(* Where a call is, as far as cancellation is concerned: not yet called,   *)
(* at an invocation of fn (lines 45-73), at the select before it blocks,   *)
(* blocked in the select, or past it.                                      *)
CancelPoint(p) ==
    CASE p = "idle" -> "before"
      [] p = "line47" -> "attempt"
      [] p = "inflight" -> "inflight"
      [] p = "line60" -> "attempt"
      [] p = "parked" -> "parked"
      [] OTHER -> "select"

(* The context of call c is cancelled while the call is pending or         *)
(* running; a call blocked in select wakes up with the Done case.          *)
Cancel(c) ==
    /\ c \in Cancellable
    /\ pc[c] # "unused"
    /\ ~Returned(c)
    /\ ctxErr[c] = Nil
    /\ ctxErr' = [ctxErr EXCEPT ![c] = Canceled]
    /\ cancelledAt' = [cancelledAt EXCEPT ![c] = CancelPoint(pc[c])]
    /\ pc' = [pc EXCEPT ![c] = IF @ = "parked" THEN "case77" ELSE @]
    /\ UNCHANGED <<opts, rng, attempt, currentDelay, err, result, calls, outcomes,
                   waits, draws, seeded>>

(* Lines 77-79 returning err, the failure of the attempt before the wait. *)
ReturnLastErr(c) ==
    /\ pc[c] = "case77"
    /\ result' = [result EXCEPT ![c] = err[c]]
    /\ pc' = [pc EXCEPT ![c] = "return79"]
    /\ UNCHANGED <<opts, rng, attempt, currentDelay, err, ctxErr, calls, outcomes,
                   waits, draws, seeded, cancelledAt>>

(* Lines 77-79: return ctx.Err(). *)
ReturnCtxErr(c) ==
    /\ pc[c] = "case77"
    /\ result' = [result EXCEPT ![c] = ctxErr[c]]
    /\ pc' = [pc EXCEPT ![c] = "return79"]
    /\ UNCHANGED <<opts, rng, attempt, currentDelay, err, ctxErr, calls, outcomes,
                   waits, draws, seeded, cancelledAt>>

(* Lines 80-83 and 45: the wait is over, attempt++ and the loop test. *)
NextAttempt(c) ==
    /\ pc[c] = "case80"
    /\ attempt' = [attempt EXCEPT ![c] = @ + 1]
    /\ pc' = [pc EXCEPT ![c] = LoopHead(c, attempt[c] + 1)]
    /\ UNCHANGED <<opts, rng, currentDelay, err, ctxErr, result, calls, outcomes,
                   waits, draws, seeded, cancelledAt>>

(* Line 86: the loop ended without a return. *)
ReturnAfterLoop(c) ==
    /\ pc[c] = "line86"
    /\ result' = [result EXCEPT ![c] = err[c]]
    /\ pc' = [pc EXCEPT ![c] = "return86"]
    /\ UNCHANGED <<opts, rng, attempt, currentDelay, err, ctxErr, calls, outcomes,
                   waits, draws, seeded, cancelledAt>>

(* The calls of Retry run, or a context is cancelled; nothing else does. *)
Next ==
    \E c \in Procs :
        \/ Start(c) /\ UNCHANGED otherVars
        \/ InvokeBegin(c) /\ UNCHANGED otherVars
        \/ InvokeEnd(c) /\ UNCHANGED otherVars
        \/ Backoff(c) /\ UNCHANGED otherVars
        \/ SelectPoll(c) /\ UNCHANGED otherVars
        \/ TimerFire(c) /\ UNCHANGED otherVars
        \/ ReturnCtxErr(c) /\ UNCHANGED otherVars
        \/ NextAttempt(c) /\ UNCHANGED otherVars
        \/ ReturnAfterLoop(c) /\ UNCHANGED otherVars
        \/ Cancel(c) /\ UNCHANGED otherVars

Spec == Init /\ [][Next]_vars

SpecConc == InitConc /\ [][Next]_vars

-----------------------------------------------------------------------------
(* RetryWithResult, lines 90-143. The call keeps its locals in wr; every   *)
(* action takes what the environment decides (the seed, what fn returns,   *)
(* the converted delay, the case the select takes) as a parameter.         *)

(* What fn returns beside its error. *)
Values == {"v1", "v2"}

WReturns == {"return107", "return112", "return135", "return142"}

(* A call of RetryWithResult is about to be made. *)
WIdle == [WUnused EXCEPT !.pc = "idle"]

WLoopHead(a) == IF a <= opts.MaxRetries THEN "line103" ELSE "line142"

(* Lines 91-101 *)
WStart(seed) ==
    /\ wr.pc = "idle"
    /\ wr' = [wr EXCEPT !.rng = RandSeed(seed),
                        !.currentDelay = opts.BaseDelay,
                        !.attempt = 0,
                        !.pc = WLoopHead(0)]

(* Line 103: fn is called. *)
WInvokeBegin ==
    /\ wr.pc = "line103"
    /\ wr' = [wr EXCEPT !.calls = @ + 1, !.pc = "inflight"]

(* Lines 103-113 keeping the value of the first invocation. *)
WInvokeEndFirstValue(v, e) ==
    /\ wr.pc = "inflight"
    /\ LET r == IF wr.calls = 1 THEN v ELSE wr.result
       IN  wr' = [wr EXCEPT
                     !.result = r,
                     !.err = e,
                     !.got = v,
                     !.ret = IF ShouldReturn(opts, e) \/ LastAttempt(opts, wr.attempt)
                             THEN <<r, e>> ELSE @,
                     !.pc = IF ShouldReturn(opts, e) THEN "return107"
                            ELSE IF LastAttempt(opts, wr.attempt) THEN "return112"
                            ELSE "line116"]

(* Lines 103-113: fn returns (v, e); the conditions of lines 106 and 111   *)
(* are those of lines 50 and 55.                                           *)
WInvokeEnd(v, e) ==
    /\ wr.pc = "inflight"
    /\ wr' = [wr EXCEPT
                 !.result = v,
                 !.err = e,
                 !.got = v,
                 !.ret = IF ShouldReturn(opts, e) \/ LastAttempt(opts, wr.attempt)
                         THEN <<v, e>> ELSE @,
                 !.pc = IF ShouldReturn(opts, e) THEN "return107"
                        ELSE IF LastAttempt(opts, wr.attempt) THEN "return112"
                        ELSE "line116"]

(* Lines 116-136: the jitter is drawn from the generator, the delay scaled *)
(* (the conversion gives nextDelay), capped, and the timer armed.          *)
WBackoff(nextDelay) ==
    /\ wr.pc = "line116"
    /\ nextDelay \in NextDelays(opts, wr.currentDelay, JitterFactor(opts, RandFloat64(wr.rng)))
    /\ wr' = [wr EXCEPT
                 !.currentDelay = nextDelay,
                 !.waits = Append(@, nextDelay),
                 !.rng = IF UsesJitter(opts) THEN RandAdvance(@) ELSE @,
                 !.pc = "select"]

(* Line 132: the select takes a ready case k, or blocks. *)
WSelectPoll(k) ==
    /\ wr.pc = "select"
    /\ k \in {"parked", "case133", "case136"}
    /\ k = "parked" => wr.ctxErr = Nil
    /\ k = "case133" => wr.ctxErr # Nil
    /\ wr' = [wr EXCEPT !.pc = k]

(* Line 136: the timer runs out while the call is blocked. *)
WTimerFire ==
    /\ wr.pc = "parked"
    /\ wr' = [wr EXCEPT !.pc = "case136"]

(* The context is cancelled. *)
WCancel ==
    /\ wr.pc \notin WReturns \cup {"unused"}
    /\ wr.ctxErr = Nil
    /\ wr' = [wr EXCEPT !.ctxErr = Canceled,
                        !.pc = IF @ = "parked" THEN "case133" ELSE @]

(* Line 135 *)
WReturnCtxErr ==
    /\ wr.pc = "case133"
    /\ wr' = [wr EXCEPT !.ret = <<wr.result, wr.ctxErr>>, !.pc = "return135"]

(* Lines 136-139 and 101 *)
WNextAttempt ==
    /\ wr.pc = "case136"
    /\ wr' = [wr EXCEPT !.attempt = @ + 1, !.pc = WLoopHead(wr.attempt + 1)]

(* Line 142 *)
WReturnAfterLoop ==
    /\ wr.pc = "line142"
    /\ wr' = [wr EXCEPT !.ret = <<wr.result, wr.err>>, !.pc = "return142"]

(* The line of RetryWithResult that is line p of Retry. *)
WLine(p) ==
    CASE p = "line47" -> "line103"
      [] p = "return51" -> "return107"
      [] p = "return56" -> "return112"
      [] p = "line60" -> "line116"
      [] p = "case77" -> "case133"
      [] p = "return79" -> "return135"
      [] p = "case80" -> "case136"
      [] p = "line86" -> "line142"
      [] p = "return86" -> "return142"
      [] OTHER -> p

(* Retry (call 1) and RetryWithResult side by side: each step is a step of *)
(* both, on the same seed, the same outcome of fn, the same converted      *)
(* delay, the same case of the select and the same cancellation.           *)
PairRetryOptions ==
    {o \in RetryOptions : o.MaxDelay = 1000 /\ o.Factor = <<2, 1>>}

InitPair == InitWith({1}, PairRetryOptions) /\ Unused({"wr"}) /\ wr = WIdle

NextPair ==
    \/ Start(1) /\ WStart(seeded'[1]) /\ Frame({"retry", "wr"})
    \/ InvokeBegin(1) /\ WInvokeBegin /\ Frame({"retry", "wr"})
    \/ InvokeEnd(1) /\ \E v \in Values : WInvokeEnd(v, Last(outcomes'[1])) /\ Frame({"retry", "wr"})
    \/ Backoff(1) /\ WBackoff(Last(waits'[1])) /\ Frame({"retry", "wr"})
    \/ SelectPoll(1) /\ WSelectPoll(WLine(pc'[1])) /\ Frame({"retry", "wr"})
    \/ TimerFire(1) /\ WTimerFire /\ Frame({"retry", "wr"})
    \/ Cancel(1) /\ WCancel /\ Frame({"retry", "wr"})
    \/ ReturnCtxErr(1) /\ WReturnCtxErr /\ Frame({"retry", "wr"})
    \/ NextAttempt(1) /\ WNextAttempt /\ Frame({"retry", "wr"})
    \/ ReturnAfterLoop(1) /\ WReturnAfterLoop /\ Frame({"retry", "wr"})

SpecPair == InitPair /\ [][NextPair]_vars

-----------------------------------------------------------------------------
(* Package file (src/file/operations.go): WriteToFile and SafeCopyFile on  *)
(* a file system that maps each path to what is there. Every system call   *)
(* can fail; what a function returns is kept apart from its local err,     *)
(* since neither function names its result.                                *)

Dsts == {"a", "b"}

(* dst + ".tmp", line 89 *)
TempOf(dst) == IF dst = "a" THEN "a.tmp" ELSE "b.tmp"

Paths == Dsts \cup {TempOf(d) : d \in Dsts}

Absent == "absent"
Dir == "dir"

(* The file systems a call can find: nothing, a directory or a regular     *)
(* file with content X or Y at each path.                                  *)
Disks == [Paths -> {Absent, Dir, "X", "Y"}]

FileCalls ==
    {[FoUnused EXCEPT !.fn = "SafeCopyFile", !.pc = "stat", !.src = src,
                      !.dst = dst, !.disk = d, !.before = d] :
        src \in Paths, dst \in Dsts, d \in Disks}
    \cup
    {[FoUnused EXCEPT !.fn = "WriteToFile", !.pc = "wopen", !.dst = f,
                      !.data = "X", !.disk = d, !.before = d] :
        f \in Dsts, d \in Disks}

InitFile == NoRetry /\ Unused({"fo"}) /\ fo \in FileCalls

(* A return statement with error e at a step: the result is set, the       *)
(* deferred calls registered so far run next.                              *)
FileReturn(f, step, e, deferred) ==
    [f EXCEPT !.ret = e, !.failed = @ \cup {step}, !.pc = deferred]

(* Lines 66-77: os.Stat(src) and IsRegular. *)
CopyStat ==
    /\ fo.pc = "stat"
    /\ \E ok \in BOOLEAN :
          fo' = IF fo.disk[fo.src] = Absent THEN FileReturn(fo, "stat", "notexist", "returned")
                ELSE IF ~ok THEN FileReturn(fo, "stat", "stat", "returned")
                ELSE IF fo.disk[fo.src] = Dir
                     THEN FileReturn(fo, "stat", "notregular", "returned")
                ELSE [fo EXCEPT !.pc = "open"]

(* Lines 80-85: os.Open(src). *)
CopyOpen ==
    /\ fo.pc = "open"
    /\ \E ok \in BOOLEAN :
          fo' = IF ok THEN [fo EXCEPT !.pc = "create"]
                ELSE FileReturn(fo, "open", "open", "returned")

(* Lines 89-105: os.Create(dst + ".tmp") creates or truncates the file;    *)
(* the cleanup is deferred once it succeeded.                              *)
CopyCreate ==
    /\ fo.pc = "create"
    /\ \E ok \in BOOLEAN :
          fo' = IF ok /\ fo.disk[TempOf(fo.dst)] # Dir
                THEN [fo EXCEPT !.disk[TempOf(fo.dst)] = "", !.success = FALSE,
                                !.pc = "copy"]
                ELSE FileReturn(fo, "create", "create", "returned")

(* Lines 108-111: io.Copy writes what the source file holds now to the     *)
(* temporary file, or a part of it when it fails.                          *)
CopyContent ==
    /\ fo.pc = "copy"
    /\ \E ok \in BOOLEAN :
          fo' = IF ok
                THEN [fo EXCEPT !.disk[TempOf(fo.dst)] = fo.disk[fo.src], !.pc = "sync"]
                ELSE FileReturn([fo EXCEPT !.disk[TempOf(fo.dst)] = "partial"],
                                "copy", "copy", "cleanup")

(* Lines 114-117 *)
CopySync ==
    /\ fo.pc = "sync"
    /\ \E ok \in BOOLEAN :
          fo' = IF ok THEN [fo EXCEPT !.pc = "close"]
                ELSE FileReturn(fo, "sync", "sync", "cleanup")

(* Lines 120-123 *)
CopyClose ==
    /\ fo.pc = "close"
    /\ \E ok \in BOOLEAN :
          fo' = IF ok THEN [fo EXCEPT !.pc = "rename"]
                ELSE FileReturn(fo, "close", "close", "cleanup")

(* Lines 126-133: os.Rename(tempDst, dst) fails on a directory; then       *)
(* success = true and return nil.                                          *)
CopyRename ==
    /\ fo.pc = "rename"
    /\ \E ok \in BOOLEAN :
          fo' = IF ok /\ fo.disk[fo.dst] # Dir
                THEN [fo EXCEPT !.disk[fo.dst] = fo.disk[TempOf(fo.dst)],
                                !.disk[TempOf(fo.dst)] = Absent,
                                !.success = TRUE, !.ret = Nil, !.pc = "cleanup"]
                ELSE FileReturn(fo, "rename", "rename", "cleanup")

(* Lines 97-105, deferred: destFile.Close(), and os.Remove(tempDst) unless *)
(* success; the error of neither is looked at.                             *)
CopyCleanup ==
    /\ fo.pc = "cleanup"
    /\ \E removed \in BOOLEAN :
          fo' = IF ~fo.success /\ removed
                THEN [fo EXCEPT !.disk[TempOf(fo.dst)] = Absent, !.pc = "returned"]
                ELSE [fo EXCEPT !.failed = IF fo.success THEN @ ELSE @ \cup {"remove"},
                                !.pc = "returned"]

(* Lines 14-18: os.OpenFile with O_CREATE|O_TRUNC. *)
WriteOpen ==
    /\ fo.pc = "wopen"
    /\ \E ok \in BOOLEAN :
          fo' = IF ok /\ fo.disk[fo.dst] # Dir
                THEN [fo EXCEPT !.disk[fo.dst] = "", !.err = Nil, !.pc = "wwrite"]
                ELSE FileReturn([fo EXCEPT !.err = "open"], "open", "open", "returned")

(* Lines 29-32 *)
WriteString ==
    /\ fo.pc = "wwrite"
    /\ \E ok \in BOOLEAN :
          fo' = IF ok
                THEN [fo EXCEPT !.disk[fo.dst] = fo.data, !.err = Nil, !.pc = "wsync"]
                ELSE FileReturn([fo EXCEPT !.disk[fo.dst] = "partial", !.err = "write"],
                                "write", "write", "wclose")

(* Lines 35-40 *)
WriteSync ==
    /\ fo.pc = "wsync"
    /\ \E ok \in BOOLEAN :
          fo' = IF ok THEN [fo EXCEPT !.err = Nil, !.ret = Nil, !.pc = "wclose"]
                ELSE FileReturn([fo EXCEPT !.err = "sync"], "sync", "sync", "wclose")

(* Lines 20-26, deferred: file.Close(); its error is assigned to the local *)
(* err, after the return statement has set the result.                     *)
WriteClose ==
    /\ fo.pc = "wclose"
    /\ \E ok \in BOOLEAN :
          fo' = IF ok THEN [fo EXCEPT !.pc = "returned"]
                ELSE [fo EXCEPT !.err = IF fo.err = Nil THEN "close" ELSE @,
                                !.failed = @ \cup {"close"},
                                !.pc = "returned"]

NextFile ==
    \/ CopyStat /\ Frame({"fo"})
    \/ CopyOpen /\ Frame({"fo"})
    \/ CopyCreate /\ Frame({"fo"})
    \/ CopyContent /\ Frame({"fo"})
    \/ CopySync /\ Frame({"fo"})
    \/ CopyClose /\ Frame({"fo"})
    \/ CopyRename /\ Frame({"fo"})
    \/ CopyCleanup /\ Frame({"fo"})
    \/ WriteOpen /\ Frame({"fo"})
    \/ WriteString /\ Frame({"fo"})
    \/ WriteSync /\ Frame({"fo"})
    \/ WriteClose /\ Frame({"fo"})

SpecFile == InitFile /\ [][NextFile]_vars

-----------------------------------------------------------------------------
(* ExecuteInTransaction (src/dbops/database_operations.go, lines 239-264)  *)
(* and ExecuteTransaction (src/db/operations.go, lines 272-326) on a       *)
(* database whose committed rows are dbt.db. fn, like the loop of lines    *)
(* 301-311, executes statements on the transaction; database/sql rolls the *)
(* transaction back when the context is cancelled.                         *)

(* Lines 290-297 *)
Users == <<"Alice", "Bob", "Charlie">>

(* The statements fn executes, in order. *)
FnStatements == {<<>>, <<"Alice">>, <<"Alice", "Bob">>}

ErrFn == <<"ErrFn">>
ErrExec == <<"ErrExec">>
ErrTxDone == <<"sql.ErrTxDone">>

(* errors.Wrap(e, msg), nil for a nil e *)
Wrap(e, msg) == IF e = <<>> THEN <<>> ELSE <<msg>> \o e

(* &DBError{Op: op, Err: e} *)
DBError(op, e) == <<"DBError " \o op>> \o e

TxCalls ==
    {[DbtUnused EXCEPT !.fn = "ExecuteInTransaction", !.pc = "begin", !.todo = st,
                       !.db = d, !.db0 = d] : st \in FnStatements, d \in SUBSET {"Zoe"}}
    \cup
    {[DbtUnused EXCEPT !.fn = "ExecuteTransaction", !.pc = "begin", !.todo = Users,
                       !.db = d, !.db0 = d] : d \in SUBSET {"Zoe"}}

InitTx == NoRetry /\ Unused({"dbt"}) /\ dbt \in TxCalls

(* Lines 241-250 (274-287): db.BeginTx(ctx, nil), which fails on a         *)
(* cancelled context, and the deferred rollback.                           *)
TxBegin ==
    /\ dbt.pc = "begin"
    /\ \E ok \in BOOLEAN :
          LET e == IF dbt.ctxErr # <<>> THEN dbt.ctxErr ELSE <<"ErrBegin">>
              wrapped == Wrap(e, "failed to begin transaction")
          IN  dbt' = IF ok /\ dbt.ctxErr = <<>>
                     THEN [dbt EXCEPT !.tx = "open", !.pc = "fn"]
                     ELSE [dbt EXCEPT
                              !.ret = IF dbt.fn = "ExecuteTransaction"
                                      THEN DBError("begin_transaction", wrapped)
                                      ELSE wrapped,
                              !.pc = "returned"]

(* A statement of fn (line 302: tx.ExecContext): it fails on a finished    *)
(* transaction. ExecuteTransaction returns the failure at once, wrapped    *)
(* (lines 303-310); fn goes on or returns as it likes.                     *)
TxExec ==
    /\ dbt.pc = "fn"
    /\ dbt.todo # <<>>
    /\ \E ok \in BOOLEAN :
          IF ok /\ dbt.tx = "open"
          THEN dbt' = [dbt EXCEPT !.pending = @ \cup {Head(dbt.todo)},
                                  !.written = @ \cup {Head(dbt.todo)},
                                  !.todo = Tail(@)]
          ELSE LET e == IF dbt.tx = "open" THEN ErrExec ELSE ErrTxDone
               IN  IF dbt.fn = "ExecuteTransaction"
                   THEN dbt' = [dbt EXCEPT
                                   !.fnErr = e,
                                   !.ret = DBError("transaction_insert",
                                                   Wrap(e, "failed to insert user")),
                                   !.pc = "deferred"]
                   ELSE dbt' = [dbt EXCEPT !.todo = Tail(@)]

(* Lines 253-256 with the commit of line 259 attempted whatever fn         *)
(* returned.                                                               *)
TxFnReturnAlwaysCommit ==
    /\ dbt.pc = "fn"
    /\ dbt.fn = "ExecuteInTransaction"
    /\ \E e \in {<<>>, ErrFn, ErrExec} :
          dbt' = [dbt EXCEPT !.fnErr = e, !.todo = <<>>, !.pc = "commit"]

(* Lines 253-256: fn returns nil or an error. *)
TxFnReturn ==
    /\ dbt.pc = "fn"
    /\ dbt.fn = "ExecuteInTransaction"
    /\ \E e \in {<<>>, ErrFn, ErrExec} :
          dbt' = IF e # <<>>
                 THEN [dbt EXCEPT !.fnErr = e, !.ret = e, !.todo = <<>>, !.pc = "deferred"]
                 ELSE [dbt EXCEPT !.fnErr = e, !.todo = <<>>, !.pc = "commit"]

(* Line 311: the loop of ExecuteTransaction ends. *)
TxLoopEnd ==
    /\ dbt.pc = "fn"
    /\ dbt.fn = "ExecuteTransaction"
    /\ dbt.todo = <<>>
    /\ dbt' = [dbt EXCEPT !.pc = "commit"]

(* Lines 259-263 (314-325): tx.Commit(). *)
TxCommit ==
    /\ dbt.pc = "commit"
    /\ \E ok \in BOOLEAN :
          LET done == dbt.tx # "open"
              e == IF done THEN ErrTxDone ELSE <<"ErrCommit">>
              wrapped == Wrap(e, "failed to commit transaction")
          IN  dbt' = IF ok /\ ~done
                     THEN [dbt EXCEPT !.db = @ \cup dbt.pending, !.pending = {},
                                      !.tx = "committed", !.ret = <<>>,
                                      !.commits = Append(@, "ok"), !.pc = "deferred"]
                     ELSE [dbt EXCEPT
                              !.pending = {},
                              !.tx = IF done THEN @ ELSE "failed",
                              !.ret = IF dbt.fn = "ExecuteTransaction"
                                      THEN DBError("commit_transaction", wrapped)
                                      ELSE wrapped,
                              !.commits = Append(@, "failed"),
                              !.pc = "deferred"]

(* Lines 247-250 (283-287), deferred: tx.Rollback(), a no-op on a finished *)
(* transaction.                                                            *)
TxRollback ==
    /\ dbt.pc = "deferred"
    /\ dbt' = [dbt EXCEPT !.pending = {},
                          !.tx = IF @ = "open" THEN "rolledback" ELSE @,
                          !.pc = "returned"]

(* The context is cancelled: database/sql rolls an open transaction back. *)
TxCtxCancel ==
    /\ dbt.pc \notin {"unused", "returned"}
    /\ dbt.ctxErr = <<>>
    /\ dbt' = [dbt EXCEPT !.ctxErr = <<Canceled>>,
                          !.pending = {},
                          !.tx = IF @ = "open" THEN "rolledback" ELSE @]

NextTx ==
    \/ TxBegin /\ Frame({"dbt"})
    \/ TxExec /\ Frame({"dbt"})
    \/ TxFnReturn /\ Frame({"dbt"})
    \/ TxLoopEnd /\ Frame({"dbt"})
    \/ TxCommit /\ Frame({"dbt"})
    \/ TxRollback /\ Frame({"dbt"})
    \/ TxCtxCancel /\ Frame({"dbt"})

SpecTx == InitTx /\ [][NextTx]_vars

-----------------------------------------------------------------------------
(* Package contextdemo (src/context/cancellation.go). An error is the      *)
(* chain of its wrappers down to its cause, <<>> is nil; the context is    *)
(* one made by WithCancel or one made by WithTimeout, and ctx.Err() keeps  *)
(* the first of cancellation and deadline.                                 *)

(* Line 78 *)
SlowTicks == 10

DeadlineExceeded == "context.DeadlineExceeded"
ErrOperationCancelled == "operation was cancelled"
ErrOperationTimedOut == "operation timed out"

(* &ContextError{Operation: op, Err: e} *)
ContextError(op, e) == <<"ContextError " \o op>> \o e

IsAContextError(x) ==
    x \in {"ContextError " \o op :
              op \in {"execute", "slow_operation_start", "slow_operation",
                      "process_with_context"}}

(* errors.Is(e, target) *)
ErrorsIs(e, target) == \E k \in 1 .. Len(e) : e[k] = target

(* errors.As(err, &ctxErr) and err = ctxErr.Err, lines 143-146 *)
UnwrapContextError(e) ==
    IF \E k \in 1 .. Len(e) : IsAContextError(e[k])
    THEN LET k == CHOOSE j \in 1 .. Len(e) :
                      IsAContextError(e[j]) /\ \A h \in 1 .. j - 1 : ~IsAContextError(e[h])
         IN  SubSeq(e, k + 1, Len(e))
    ELSE e

(* Lines 141-150 *)
IsContextCancelled(e) == ErrorsIs(UnwrapContextError(e), Canceled)

(* Lines 153-162 *)
IsContextTimeout(e) ==
    \/ ErrorsIs(UnwrapContextError(e), DeadlineExceeded)
    \/ ErrorsIs(UnwrapContextError(e), ErrOperationTimedOut)

CxCalls ==
    {[CxUnused EXCEPT !.fn = f, !.pc = "idle", !.kind = k] :
        f \in {"ExecuteWithContext", "SlowOperation", "ProcessWithContext"},
        k \in {"cancel", "deadline"}}

InitCx == NoRetry /\ Unused({"cx"}) /\ cx \in CxCalls

(* The cancel function of the context is called. *)
CxCancel ==
    /\ cx.pc \notin {"unused", "returned"}
    /\ cx.ctxErr = <<>>
    /\ cx' = [cx EXCEPT !.ctxErr = <<Canceled>>]

(* The deadline of a context made by WithTimeout passes. *)
CxDeadline ==
    /\ cx.pc \notin {"unused", "returned"}
    /\ cx.kind = "deadline"
    /\ cx.ctxErr = <<>>
    /\ cx' = [cx EXCEPT !.ctxErr = <<DeadlineExceeded>>]

(* The call and its first statements: lines 35-44, the test of line 64,    *)
(* the test of line 119.                                                   *)
CxCall ==
    /\ cx.pc = "idle"
    /\ cx' = IF cx.fn = "ExecuteWithContext" \/ cx.ctxErr = <<>>
             THEN [cx EXCEPT !.i = 0, !.pc = "select"]
             ELSE [cx EXCEPT
                      !.ret = ContextError(IF cx.fn = "SlowOperation"
                                           THEN "slow_operation_start"
                                           ELSE "process_with_context", cx.ctxErr),
                      !.pc = "returned"]

(* The select takes the case of the work: done (line 48), ticker.C (line   *)
(* 80) up to SlowTicks times, time.After (line 128).                       *)
CxWork ==
    /\ cx.pc = "select"
    /\ cx' = IF cx.fn = "SlowOperation" /\ cx.i + 1 < SlowTicks
             THEN [cx EXCEPT !.i = @ + 1]
             ELSE [cx EXCEPT !.i = @ + 1, !.ret = <<>>, !.pc = "returned"]

(* The select takes the case of ctx.Done(): lines 52-57, 83-98, 131-136. *)
CxDone ==
    /\ cx.pc = "select"
    /\ cx.ctxErr # <<>>
    /\ cx' = [cx EXCEPT
                 !.ret = CASE cx.fn = "ExecuteWithContext" ->
                                ContextError("execute", cx.ctxErr)
                           [] cx.fn = "ProcessWithContext" ->
                                ContextError("process_with_context", cx.ctxErr)
                           [] cx.fn = "SlowOperation" ->
                                IF cx.ctxErr = <<DeadlineExceeded>>
                                THEN ContextError("slow_operation", <<ErrOperationTimedOut>>)
                                ELSE ContextError("slow_operation", <<ErrOperationCancelled>>),
                 !.pc = "returned"]

NextCx ==
    \/ CxCancel /\ Frame({"cx"})
    \/ CxDeadline /\ Frame({"cx"})
    \/ CxCall /\ Frame({"cx"})
    \/ CxWork /\ Frame({"cx"})
    \/ CxDone /\ Frame({"cx"})

SpecCx == InitCx /\ [][NextCx]_vars

-----------------------------------------------------------------------------
(* FetchURL (lines 34-139) and PostJSON (lines 142-207) of package network *)
(* (src/network/client.go). Durations are in milliseconds; an error is the *)
(* chain of its wrappers down to its cause, <<>> is nil. A request attempt *)
(* is a call of client.Do.                                                 *)

MaxNetRetries == 3

(* &NetworkError{URL: url, Op: op, Err: e, Retries: r} *)
NetworkError(op, e, r) == [Op |-> op, Err |-> e, Retries |-> r]

(* Lines 73 and 164: time.Duration(1<<uint(retry-1)) * 100 * time.Millisecond *)
BackoffTime(retry) == (2 ^ (retry - 1)) * 100

NetCalls ==
    {[NetUnused EXCEPT !.fn = f, !.pc = "idle", !.maxRetries = m, !.urlOk = u] :
        f \in {"FetchURL", "PostJSON"}, m \in -1 .. MaxNetRetries, u \in BOOLEAN}

InitNet == NoRetry /\ Unused({"net"}) /\ net \in NetCalls

(* The Op of the errors a function returns at its check and after the loop. *)
NetOp(n) == IF n.fn = "FetchURL" THEN "fetch" ELSE "post_json"

(* Lines 53 and 151: the loop test, and lines 133-138 (201-206) when it    *)
(* fails.                                                                  *)
NetLoopHead(n) ==
    IF n.retry <= n.maxRetries
    THEN [n EXCEPT !.pc = "check"]
    ELSE [n EXCEPT !.ret = NetworkError(NetOp(n), Wrap(n.lastErr, "all retries failed"),
                                        n.maxRetries),
                   !.pc = "returned"]

(* lastErr = e; continue *)
NetContinue(n, e) == NetLoopHead([n EXCEPT !.lastErr = e, !.retry = @ + 1])

(* Lines 92-102 (169-183): the request is made and client.Do called, unless *)
(* NewRequestWithContext rejects the URL.                                  *)
NetStartRequest(n) ==
    IF n.urlOk
    THEN [n EXCEPT !.attempts = @ + 1,
                   !.startedCancelled = IF n.ctxErr # <<>> THEN @ + 1 ELSE @,
                   !.pc = "inflight"]
    ELSE NetContinue(n, <<"ErrNewRequest">>)

(* Lines 35-53 (143-151): the call, up to the first loop test. *)
NetCall ==
    /\ net.pc = "idle"
    /\ net' = NetLoopHead(net)

(* Lines 55-89 and 153-166 testing ctx.Err() before the first attempt only. *)
NetCheckFirstOnly ==
    /\ net.pc = "check"
    /\ IF net.ctxErr # <<>> /\ net.retry = 0
       THEN net' = [net EXCEPT !.ret = NetworkError(NetOp(net), net.ctxErr, net.retry),
                               !.pc = "returned"]
       ELSE LET n == [net EXCEPT !.checkedAt = net.retry] IN
            IF net.retry > 0
            THEN net' = [n EXCEPT !.waits = Append(@, BackoffTime(net.retry)),
                                  !.pc = IF net.fn = "FetchURL" THEN "select" ELSE "sleep"]
            ELSE net' = NetStartRequest(n)

(* Lines 55-76 and 153-165: the test of ctx.Err(); then, for a retry, the  *)
(* timer is armed (FetchURL) or the sleep begun (PostJSON); for the first  *)
(* attempt the request is made.                                            *)
NetCheck ==
    /\ net.pc = "check"
    /\ IF net.ctxErr # <<>>
       THEN net' = [net EXCEPT !.ret = NetworkError(NetOp(net), net.ctxErr, net.retry),
                               !.pc = "returned"]
       ELSE LET n == [net EXCEPT !.checkedAt = net.retry] IN
            IF net.retry > 0
            THEN net' = [n EXCEPT !.waits = Append(@, BackoffTime(net.retry)),
                                  !.pc = IF net.fn = "FetchURL" THEN "select" ELSE "sleep"]
            ELSE net' = NetStartRequest(n)

(* Line 77: the select of FetchURL takes a ready case, or blocks; the case *)
(* of the timer goes on to the request.                                    *)
NetSelectPoll ==
    /\ net.pc = "select"
    /\ \E timerReady \in BOOLEAN :
          LET ready == (IF net.ctxErr # <<>> THEN {"case78"} ELSE {})
                         \cup (IF timerReady THEN {"case86"} ELSE {})
          IN  IF ready = {}
              THEN net' = [net EXCEPT !.pc = "parked"]
              ELSE \E k \in ready :
                      net' = IF k = "case78" THEN [net EXCEPT !.pc = "case78"]
                             ELSE NetStartRequest(net)

(* Lines 86-102: the timer runs out while FetchURL is blocked. *)
NetTimerFire ==
    /\ net.pc = "parked"
    /\ net' = NetStartRequest(net)

(* Lines 78-85 *)
NetBackoffCancelled ==
    /\ net.pc = "case78"
    /\ net' = [net EXCEPT !.ret = NetworkError("fetch_backoff", net.ctxErr, net.retry),
                          !.pc = "returned"]

(* Lines 165-183: time.Sleep returns and PostJSON makes the request. *)
NetSleepEnd ==
    /\ net.pc = "sleep"
    /\ net' = NetStartRequest(net)

(* Lines 102-129 (183-197): client.Do returns an error, a status >= 400 or *)
(* a response; with a context cancelled by then only the error.            *)
NetResponse ==
    /\ net.pc = "inflight"
    /\ \E o \in {"ok", "ErrDo", "bad status code"} :
          /\ net.ctxErr # <<>> => o = "ErrDo"
          /\ net' = IF o = "ok"
                    THEN [net EXCEPT !.ret = <<>>, !.pc = "returned"]
                    ELSE NetContinue(net, IF o = "ErrDo" THEN <<o>> \o net.ctxErr ELSE <<o>>)

(* The context is cancelled; a FetchURL blocked in its select wakes up     *)
(* with the Done case.                                                     *)
NetCancel ==
    /\ net.pc \notin {"unused", "returned"}
    /\ net.ctxErr = <<>>
    /\ net' = [net EXCEPT !.ctxErr = <<Canceled>>,
                          !.cancelledAt = net.pc,
                          !.attemptsAtCancel = net.attempts,
                          !.pc = IF @ = "parked" THEN "case78" ELSE @]

NextNet ==
    \/ NetCall /\ Frame({"net"})
    \/ NetCheck /\ Frame({"net"})
    \/ NetSelectPoll /\ Frame({"net"})
    \/ NetTimerFire /\ Frame({"net"})
    \/ NetBackoffCancelled /\ Frame({"net"})
    \/ NetSleepEnd /\ Frame({"net"})
    \/ NetResponse /\ Frame({"net"})
    \/ NetCancel /\ Frame({"net"})

SpecNet == InitNet /\ [][NextNet]_vars

-----------------------------------------------------------------------------
(* The recovering wrappers: SafeExecute (src/utils/recovery.go, lines      *)
(* 51-59), ExecuteWithRecover and SafeCall (src/network/client.go, lines   *)
(* 273-289 and 380-394). Each has named results, which the deferred        *)
(* closure can set after fn panicked. pr.does is what fn does; pr.panicnil *)
(* is whether the build makes recover() return nil after panic(nil), as Go *)
(* before 1.21 does (the workflows build with Go 1.19).                    *)

(* The values fn panics with: nil, a string, an error, a runtime error. *)
PanicValues == {"nil", "boom", "ErrFn", "runtime error: integer divide by zero"}

(* What fn does: return a result and an error, or panic with a value. *)
FnBehaviours ==
    [panics : {FALSE}, result : {"", "ok"}, err : {<<>>, ErrFn}]
    \cup [panics : {TRUE}, result : PanicValues, err : {<<>>}]

(* fn has the results its type gives it: func() error, func(), func()      *)
(* (string, error).                                                        *)
FnFits(f, d) ==
    d.panics \/ CASE f = "SafeExecute" -> d.result = ""
                  [] f = "SafeCall" -> d.result = "" /\ d.err = <<>>
                  [] OTHER -> TRUE

PrCalls ==
    {c \in {[PrUnused EXCEPT !.fn = f, !.pc = "call", !.does = d, !.panicnil = b] :
                f \in {"SafeExecute", "SafeCall", "ExecuteWithRecover"},
                d \in FnBehaviours,
                b \in BOOLEAN} :
        FnFits(c.fn, c.does)}

InitPr == NoRetry /\ Unused({"pr"}) /\ pr \in PrCalls

(* &PanicError{Panic: r}, and the error of line 55 of recovery.go *)
PanicError(f, r) ==
    IF f = "SafeExecute" THEN <<"panic recovered: " \o r>> ELSE <<"PanicError", r>>

(* What recover() returns for a panic with value v. *)
Recovered(v, panicnil) ==
    IF v = "nil" THEN (IF panicnil THEN "nil" ELSE "runtime.PanicNilError") ELSE v

(* The closure is deferred and fn called (lines 52-58; 275-288; 382-392). *)
PrCall ==
    /\ pr.pc = "call"
    /\ pr' = [pr EXCEPT !.pc = "fn"]

(* fn returns: `return fn()` sets the results (line 58; 288), SafeCall     *)
(* returns nil (line 393).                                                 *)
PrFnReturns ==
    /\ pr.pc = "fn"
    /\ ~pr.does.panics
    /\ pr' = [pr EXCEPT !.result = pr.does.result, !.err = pr.does.err,
                        !.pc = "deferred"]

(* fn panics: the results keep their zero values and the deferred closure  *)
(* runs while the goroutine is panicking.                                  *)
PrFnPanics ==
    /\ pr.pc = "fn"
    /\ pr.does.panics
    /\ pr' = [pr EXCEPT !.panicking = TRUE, !.value = pr.does.result,
                        !.pc = "deferred"]

(* The deferred closure (lines 52-57; 275-285; 382-389): recover() stops   *)
(* the panic, and err is set when recover() did not return nil.            *)
PrDeferred ==
    /\ pr.pc = "deferred"
    /\ LET r == IF pr.panicking THEN Recovered(pr.value, pr.panicnil) ELSE "nil"
       IN  pr' = [pr EXCEPT !.err = IF r # "nil" THEN PanicError(pr.fn, r) ELSE @,
                            !.panicking = FALSE,
                            !.pc = "returned"]

NextPr ==
    \/ PrCall /\ Frame({"pr"})
    \/ PrFnReturns /\ Frame({"pr"})
    \/ PrFnPanics /\ Frame({"pr"})
    \/ PrDeferred /\ Frame({"pr"})

SpecPr == InitPr /\ [][NextPr]_vars

-----------------------------------------------------------------------------
(* simulateConcurrentOperations and simulateWorker (examples/advanced)      *)

(* The bound of the loop that starts the workers *)
NumWorkers == 3

Workers == 1 .. NumWorkers

(* The error of line 107 *)
WorkerError(id) == "worker " \o ToString(id) \o ": encountered a critical error"

(* The state after lines 48-56: a context that is not cancelled, a wait     *)
(* group at zero, a free mutex, firstErr nil, and no goroutine started.     *)
(* sim.entered lists the workers in the order they locked mu, sim.assigns   *)
(* every value assigned to firstErr.                                        *)
InitSim ==
    /\ NoRetry
    /\ Unused({"sim"})
    /\ sim = [pc |-> "loop", i |-> 1, wg |-> 0, mu |-> 0, firstErr |-> Nil,
              cancelled |-> FALSE, ret |-> Nil,
              w |-> [id \in Workers |-> [pc |-> "notstarted", willFail |-> FALSE, err |-> Nil]],
              entered |-> <<>>, assigns |-> <<>>]

(* One turn of the loop: wg.Add(1) and the go statement. *)
SimSpawn ==
    /\ sim.pc = "loop"
    /\ sim.i <= NumWorkers
    /\ sim' = [sim EXCEPT !.wg = @ + 1,
                          !.w[sim.i].pc = "start",
                          !.i = @ + 1,
                          !.pc = IF sim.i + 1 <= NumWorkers THEN "loop" ELSE "wait"]

(* The worker draws its work time and whether it fails, and reaches the     *)
(* select.                                                                  *)
WorkerStart(id) ==
    /\ sim.w[id].pc = "start"
    /\ \E f \in BOOLEAN :
           sim' = [sim EXCEPT !.w[id].pc = "select", !.w[id].willFail = f]

(* What the goroutine does with the error of simulateWorker: line 70. *)
WorkerReturns(id, e) ==
    sim' = [sim EXCEPT !.w[id].err = e,
                       !.w[id].pc = IF e # Nil THEN "lock" ELSE "exit"]

(* The timer of the select fires: the work is over. *)
WorkerTimer(id) ==
    /\ sim.w[id].pc = "select"
    /\ WorkerReturns(id, IF sim.w[id].willFail THEN WorkerError(id) ELSE Nil)

(* The select takes ctx.Done(), which is ready once the context is          *)
(* cancelled, whether or not the timer has fired too.                       *)
WorkerCtxDone(id) ==
    /\ sim.w[id].pc = "select"
    /\ sim.cancelled
    /\ WorkerReturns(id, Canceled)

(* mu.Lock() *)
WorkerLock(id) ==
    /\ sim.w[id].pc = "lock"
    /\ sim.mu = 0
    /\ sim' = [sim EXCEPT !.mu = id,
                          !.w[id].pc = "critical",
                          !.entered = Append(@, id)]

(* Lines 72-75 without the test of line 72. *)
WorkerRecordAlways(id) ==
    /\ sim.w[id].pc = "critical"
    /\ sim' = [sim EXCEPT !.firstErr = sim.w[id].err,
                          !.assigns = Append(@, sim.w[id].err),
                          !.cancelled = TRUE,
                          !.w[id].pc = "unlock"]

(* Lines 72-75: the first error is kept and the context cancelled. *)
WorkerRecord(id) ==
    /\ sim.w[id].pc = "critical"
    /\ IF sim.firstErr = Nil
       THEN sim' = [sim EXCEPT !.firstErr = sim.w[id].err,
                               !.assigns = Append(@, sim.w[id].err),
                               !.cancelled = TRUE,
                               !.w[id].pc = "unlock"]
       ELSE sim' = [sim EXCEPT !.w[id].pc = "unlock"]

(* mu.Unlock() *)
WorkerUnlock(id) ==
    /\ sim.w[id].pc = "unlock"
    /\ sim' = [sim EXCEPT !.mu = 0, !.w[id].pc = "exit"]

(* The deferred wg.Done() *)
WorkerDone(id) ==
    /\ sim.w[id].pc = "exit"
    /\ sim' = [sim EXCEPT !.wg = @ - 1, !.w[id].pc = "finished"]

(* A wg.Wait() that does not wait. *)
SimWaitEarly ==
    /\ sim.pc = "wait"
    /\ sim' = [sim EXCEPT !.ret = sim.firstErr, !.cancelled = TRUE, !.pc = "returned"]

(* wg.Wait() returns when the counter is zero; firstErr is returned and the *)
(* deferred cancel runs.                                                    *)
SimWait ==
    /\ sim.pc = "wait"
    /\ sim.wg = 0
    /\ sim' = [sim EXCEPT !.ret = sim.firstErr, !.cancelled = TRUE, !.pc = "returned"]

NextSim ==
    \/ SimSpawn /\ Frame({"sim"})
    \/ SimWait /\ Frame({"sim"})
    \/ \E id \in Workers :
           \/ WorkerStart(id) /\ Frame({"sim"})
           \/ WorkerTimer(id) /\ Frame({"sim"})
           \/ WorkerCtxDone(id) /\ Frame({"sim"})
           \/ WorkerLock(id) /\ Frame({"sim"})
           \/ WorkerRecord(id) /\ Frame({"sim"})
           \/ WorkerUnlock(id) /\ Frame({"sim"})
           \/ WorkerDone(id) /\ Frame({"sim"})

SpecSim == InitSim /\ [][NextSim]_vars

(* The scheduler runs a goroutine that can run, and a timer that was set    *)
(* fires: the program does not stop while a step is possible.               *)
FairSpecSim == SpecSim /\ WF_vars(NextSim)

-----------------------------------------------------------------------------
(* What the claims speak of *)

(* The calls that are made in this behaviour. *)
Made == {c \in Procs : pc[c] # "unused"}

(* e is a failure the options let Retry retry. *)
RetryableFailure(e) ==
    e # Nil /\ (opts.RetryableFunc.isNil \/ e \in opts.RetryableFunc.accepts)

(* e is a failure the predicate of the options classifies as terminal. *)
TerminalFailure(e) ==
    e # Nil /\ ~opts.RetryableFunc.isNil /\ e \notin opts.RetryableFunc.accepts

AllRetryableFailures(s) == \A i \in 1 .. Len(s) : RetryableFailure(s[i])

-----------------------------------------------------------------------------
C2_SuccessReturnsAtOnce ==
    \A c \in Made :
        (outcomes[c] # <<>> /\ Last(outcomes[c]) = Nil) =>
            /\ pc[c] = "return51"
            /\ result[c] = Nil
            /\ attempt[c] <= opts.MaxRetries
            /\ calls[c] = attempt[c] + 1
            /\ Len(outcomes[c]) = attempt[c] + 1
            /\ Len(waits[c]) = attempt[c]
            /\ \A i \in 1 .. attempt[c] : RetryableFailure(outcomes[c][i])

C2_Witness ==
    \E c \in Made :
        /\ pc[c] = "return51"
        /\ outcomes[c] = <<ErrTransient, ErrTransient, Nil>>
        /\ ctxErr[c] = Nil
        /\ calls[c] = 3
        /\ Len(waits[c]) = 2

\* C3: when RetryableFunc returns false for the failure of an invocation, Retry
\* returns that very failure from line 51 with no wait and no invocation after
\* it, whatever MaxRetries is; a terminal first failure gives one invocation.
C3_TerminalFailureReturnsAtOnce ==
    \A c \in Made :
        /\ (outcomes[c] # <<>> /\ TerminalFailure(Last(outcomes[c]))) =>
               /\ pc[c] = "return51"
               /\ result[c] = Last(outcomes[c])
               /\ calls[c] = Len(outcomes[c])
               /\ Len(waits[c]) = Len(outcomes[c]) - 1
        /\ (outcomes[c] # <<>> /\ TerminalFailure(outcomes[c][1])) =>
               /\ calls[c] = 1
               /\ waits[c] = <<>>

C3_Witness ==
    \E c \in Made :
        /\ opts.MaxRetries = MaxRetriesBound
        /\ outcomes[c] = <<Canceled>>
        /\ TerminalFailure(Canceled)
        /\ pc[c] = "return51"
        /\ result[c] = Canceled
        /\ calls[c] = 1

\* C4: when the context is cancelled while Retry is blocked in the select
\* between two attempts, Retry takes the Done case and returns ctx.Err(), not
\* the failure of the attempt before: the loop variable is not advanced (the
\* wait is not completed) and fn is not invoked again.
C4_CancelledWaitReturnsCtxErr ==
    \A c \in Made :
        cancelledAt[c] = "parked" =>
            /\ pc[c] \in {"case77", "return79"}
            /\ calls[c] = Len(waits[c])
            /\ Len(outcomes[c]) = Len(waits[c])
            /\ attempt[c] = Len(waits[c]) - 1
            /\ pc[c] = "return79" => (result[c] = ctxErr[c] /\ result[c] = Canceled)

C4_Witness ==
    \E c \in Made :
        /\ cancelledAt[c] = "parked"
        /\ pc[c] = "return79"
        /\ outcomes[c] = <<ErrTransient, ErrTransient>>
        /\ result[c] = Canceled
        /\ opts.MaxRetries = MaxRetriesBound

\* C5: when every attempt is used and the last one fails, Retry returns exactly
\* the failure of that last invocation, invocation MaxRetries+1: never nil and
\* never the failure of an earlier invocation.
C5_ExhaustionReturnsLastFailure ==
    \A c \in Made :
        /\ pc[c] = "return56" =>
               /\ Len(outcomes[c]) = opts.MaxRetries + 1
               /\ calls[c] = opts.MaxRetries + 1
        /\ (Returned(c) /\ Len(outcomes[c]) = opts.MaxRetries + 1
                /\ outcomes[c] # <<>> /\ Last(outcomes[c]) # Nil) =>
               /\ pc[c] \in {"return51", "return56"}
               /\ result[c] = Last(outcomes[c])
               /\ result[c] # Nil

C5_Witness ==
    \E c \in Made :
        /\ pc[c] = "return56"
        /\ opts.MaxRetries = 2
        /\ outcomes[c] = <<ErrTransient, ErrTransient, Canceled>>
        /\ result[c] = Canceled

\* C6: every duration Retry waits for between two attempts is at most MaxDelay,
\* for every attempt, every jitter draw, every BaseDelay and Factor, also when
\* BaseDelay exceeds MaxDelay and when the scaled delay does not fit a Duration.
C6_WaitsAtMostMaxDelay ==
    \A c \in Made :
        \A i \in 1 .. Len(waits[c]) : waits[c][i] <= opts.MaxDelay

C6_Witness ==
    \E c \in Made :
        /\ opts.BaseDelay > opts.MaxDelay
        /\ Len(waits[c]) = MaxRetriesBound
        /\ opts.Jitter = <<1, 1>>
        /\ waits[c][1] = opts.MaxDelay
        /\ waits[c][MaxRetriesBound] = opts.MaxDelay

\* C7: with Jitter = 0 the wait before the first retry is BaseDelay and each
\* later wait is the wait before it times Factor (up to the cap); with
\* MaxRetries = 3, BaseDelay = 100, MaxDelay = 1000 and Factor = 2 the waits
\* are 100, 200 and 400.
C7_FirstWaitIsBaseDelay ==
    \A c \in Made :
        (opts.Jitter = <<0, 1>> /\ opts.BaseDelay <= opts.MaxDelay) =>
            /\ Len(waits[c]) >= 1 => waits[c][1] = opts.BaseDelay
            /\ \A i \in 2 .. Len(waits[c]) :
                   waits[c][i] =
                       IF Trunc(waits[c][i - 1] * opts.Factor[1], opts.Factor[2])
                              > opts.MaxDelay
                       THEN opts.MaxDelay
                       ELSE Trunc(waits[c][i - 1] * opts.Factor[1], opts.Factor[2])
            /\ (opts.MaxRetries = 3 /\ opts.BaseDelay = 100 /\ opts.MaxDelay = 1000
                    /\ opts.Factor = <<2, 1>> /\ Len(waits[c]) = 3) =>
                   waits[c] = <<100, 200, 400>>

\* C8: the value Retry returns on cancellation during a wait (line 79) is never
\* equal to a value Retry returns as the failure of the operation (lines 51 and
\* 56), so that the returned value alone tells the two apart.
C8_CancellationDistinctFromFailure ==
    \A c \in Made : \A d \in Made :
        (pc[c] = "return79" /\ pc[d] \in {"return51", "return56"} /\ result[d] # Nil)
            => result[c] # result[d]

\* C9: cancellation is observed at the select between two attempts only. Retry
\* returns from line 79 only after a finished invocation and a wait it began;
\* a context cancelled before the call or during an invocation does not keep
\* fn from being invoked and from finishing; a success is returned as nil and
\* the failure of the last allowed attempt as that failure, cancelled or not.
C9_CancellationOnlyAtTheWait ==
    \A c \in Made :
        /\ pc[c] = "return79" =>
               /\ waits[c] # <<>>
               /\ Len(outcomes[c]) = Len(waits[c])
               /\ calls[c] = Len(waits[c])
               /\ attempt[c] < opts.MaxRetries
        /\ (cancelledAt[c] = "before" /\ opts.MaxRetries >= 0 /\ pc[c] # "idle") =>
               pc[c] = "line47" \/ calls[c] >= 1
        /\ (cancelledAt[c] \in {"before", "attempt", "inflight"} /\ Returned(c)
                /\ opts.MaxRetries >= 0) =>
               (calls[c] >= 1 /\ Len(outcomes[c]) = calls[c])
        /\ (Returned(c) /\ outcomes[c] # <<>> /\ Last(outcomes[c]) = Nil) =>
               (pc[c] = "return51" /\ result[c] = Nil)
        /\ (Returned(c) /\ Len(outcomes[c]) = opts.MaxRetries + 1 /\ outcomes[c] # <<>>) =>
               (pc[c] \in {"return51", "return56"} /\ result[c] = Last(outcomes[c]))

C9_Witness ==
    \E c \in Made :
        /\ cancelledAt[c] = "before"
        /\ opts.MaxRetries = 1
        /\ outcomes[c] = <<ErrTransient, ErrTransient>>
        /\ pc[c] = "return56"
        /\ result[c] = ErrTransient

(* The waits a call makes when it runs alone: the first n waits computed   *)
(* from the generator state g its own seed gives and the delay cur.        *)
RECURSIVE SoloWaits(_, _, _, _)
SoloWaits(o, g, cur, n) ==
    IF n = 0
    THEN <<>>
    ELSE LET d == CHOOSE x \in NextDelays(o, cur, JitterFactor(o, RandFloat64(g))) : TRUE
         IN  <<d>> \o SoloWaits(o, IF UsesJitter(o) THEN RandAdvance(g) ELSE g, d, n - 1)

\* C10: two concurrent calls of Retry with the same options are independent:
\* the waits of each call are the waits it makes when it runs alone with the
\* seed it took, whatever the other call does in between.
C10_ConcurrentCallsIndependent ==
    \A c \in Made :
        seeded[c] \in Seeds /\ pc[c] # "idle" =>
            waits[c] = SoloWaits(opts, RandSeed(seeded[c]), opts.BaseDelay, Len(waits[c]))

\* C11: with a nil RetryableFunc every failure is retried: Retry returns from
\* line 51 with nil only, every invocation before the last one made failed and
\* was followed by a wait, and Retry returns only on a success, on the failure
\* of invocation MaxRetries+1, or on cancellation at a wait.
C11_NilFuncRetriesEveryFailure ==
    \A c \in Made :
        opts.RetryableFunc.isNil =>
            /\ pc[c] = "return51" => (result[c] = Nil /\ Last(outcomes[c]) = Nil)
            /\ \A i \in 1 .. Len(outcomes[c]) - 1 :
                   outcomes[c][i] \in Failures /\ Len(waits[c]) >= i
            /\ (Returned(c) /\ opts.MaxRetries >= 0) =>
                   \/ pc[c] = "return51" /\ Last(outcomes[c]) = Nil
                   \/ pc[c] = "return56" /\ Len(outcomes[c]) = opts.MaxRetries + 1
                   \/ pc[c] = "return79" /\ ctxErr[c] # Nil

C11_Witness ==
    \E c \in Made :
        /\ opts.RetryableFunc.isNil
        /\ opts.MaxRetries = MaxRetriesBound
        /\ outcomes[c] = <<Canceled, ErrTransient, Nil>>
        /\ Len(waits[c]) = 2
        /\ pc[c] = "return51"

\* C13: Retry does not wait after the last allowed attempt: when it returns the
\* outcome of an invocation (lines 51 and 56) it has made one wait fewer than
\* invocations, it is never at a wait with attempt = MaxRetries, and with
\* MaxRetries = 0 it invokes fn exactly once and never waits.
C13_NoWaitAfterLastAttempt ==
    \A c \in Made :
        /\ pc[c] \in {"return51", "return56"} => Len(waits[c]) = calls[c] - 1
        /\ pc[c] \in {"line60", "select", "parked", "case77", "case80"} =>
               attempt[c] < opts.MaxRetries
        /\ opts.MaxRetries >= 0 => Len(waits[c]) <= opts.MaxRetries
        /\ opts.MaxRetries = 0 =>
               /\ waits[c] = <<>>
               /\ calls[c] <= 1
               /\ Returned(c) => (calls[c] = 1 /\ pc[c] \in {"return51", "return56"})

C13_Witness ==
    \E c \in Made :
        /\ opts.MaxRetries = 0
        /\ pc[c] = "return56"
        /\ outcomes[c] = <<ErrTransient>>
        /\ calls[c] = 1
        /\ waits[c] = <<>>

\* C12: RetryWithResult has the control flow of Retry. Run side by side on the
\* same outcomes of fn, jitter draws and cancellation, the two are at the same
\* line, have invoked fn as often, made the same waits and return the same
\* error; on success RetryWithResult returns the value fn returned with it.
C12_SameControlFlowAsRetry ==
    /\ wr.pc = WLine(pc[1])
    /\ wr.calls = calls[1]
    /\ wr.waits = waits[1]
    /\ wr.attempt = attempt[1]
    /\ (wr.pc \in WReturns) = Returned(1)
    /\ Returned(1) => wr.ret[2] = result[1]
    /\ (Returned(1) /\ result[1] = Nil /\ outcomes[1] # <<>>) =>
           (wr.pc = "return107" /\ wr.ret = <<wr.got, Nil>>)

C12_Witness ==
    /\ wr.pc = "return107"
    /\ pc[1] = "return51"
    /\ outcomes[1] = <<ErrTransient, ErrTransient, Nil>>
    /\ wr.calls = 3
    /\ Len(wr.waits) = 2
    /\ wr.ret = <<"v2", Nil>>

\* C14: SafeCopyFile is atomic with respect to dst: when it returns after the
\* copy, the sync, the close or the rename failed, dst holds what it held
\* before the call and nothing is at dst+".tmp"; when it returns nil, dst holds
\* the content src had when the call was made and nothing is at dst+".tmp".
C14_SafeCopyFileAtomic ==
    (fo.fn = "SafeCopyFile" /\ fo.pc = "returned") =>
        /\ fo.failed \cap {"copy", "sync", "close", "rename"} # {} =>
               /\ fo.ret # Nil
               /\ fo.disk[fo.dst] = fo.before[fo.dst]
               /\ fo.disk[TempOf(fo.dst)] = Absent
        /\ fo.ret = Nil =>
               /\ fo.disk[fo.dst] = fo.before[fo.src]
               /\ fo.disk[TempOf(fo.dst)] = Absent

\* C15: WriteToFile does not lose a failure of Close: when open, write and sync
\* succeeded and Close failed it returns an error, and when an earlier step
\* failed it returns the error of that step, whatever Close does.
C15_WriteToFileReportsClose ==
    (fo.fn = "WriteToFile" /\ fo.pc = "returned") =>
        /\ fo.failed = {"close"} => fo.ret # Nil
        /\ \A step \in {"open", "write", "sync"} : step \in fo.failed => fo.ret = step

\* C16: ExecuteInTransaction commits exactly when fn returns nil. When fn
\* returns an error, Commit is not called, the transaction is rolled back, the
\* database holds what it held before and the error of fn is returned as it
\* is; when fn returns nil and Commit succeeds, every row fn wrote is in the
\* database and nil is returned. The same holds of ExecuteTransaction, whose
\* loop of inserts is its fn and which returns the failed insert in a DBError.
C16_CommitsExactlyWhenFnReturnsNil ==
    LET ranFn == dbt.pc \in {"commit", "deferred", "returned"} /\ dbt.tx # "none"
    IN  /\ dbt.commits # <<>> => (ranFn /\ dbt.fnErr = <<>> /\ Len(dbt.commits) = 1)
        /\ (dbt.pc = "returned" /\ ranFn /\ dbt.fnErr = <<>>) => Len(dbt.commits) = 1
        /\ (dbt.pc = "returned" /\ ranFn /\ dbt.fnErr # <<>>) =>
               /\ dbt.commits = <<>>
               /\ dbt.tx = "rolledback"
               /\ dbt.db = dbt.db0
               /\ dbt.pending = {}
               /\ dbt.fn = "ExecuteInTransaction" => dbt.ret = dbt.fnErr
               /\ dbt.fn = "ExecuteTransaction" =>
                      dbt.ret = <<"DBError transaction_insert", "failed to insert user">>
                                    \o dbt.fnErr
        /\ (dbt.pc = "returned" /\ dbt.commits = <<"ok">>) =>
               /\ dbt.db = dbt.db0 \cup dbt.written
               /\ dbt.ret = <<>>
               /\ dbt.tx = "committed"
        /\ dbt.db # dbt.db0 => dbt.commits = <<"ok">>
        /\ (dbt.pc = "returned" /\ dbt.ret = <<>>) => dbt.commits = <<"ok">>

C16_Witness ==
    /\ dbt.fn = "ExecuteInTransaction"
    /\ dbt.pc = "returned"
    /\ dbt.written = {"Alice", "Bob"}
    /\ dbt.fnErr = ErrFn
    /\ dbt.ret = ErrFn
    /\ dbt.tx = "rolledback"
    /\ dbt.db = dbt.db0
    /\ dbt.commits = <<>>

\* C17: IsContextCancelled and IsContextTimeout classify every cancellation
\* error SlowOperation, ExecuteWithContext and ProcessWithContext return: for
\* a context that was cancelled by hand IsContextCancelled is true, for one
\* whose deadline passed IsContextTimeout is true, and never both.
C17_CancellationErrorsClassified ==
    (cx.pc = "returned" /\ cx.ret # <<>>) =>
        /\ cx.ctxErr = <<Canceled>> => IsContextCancelled(cx.ret)
        /\ cx.ctxErr = <<DeadlineExceeded>> => IsContextTimeout(cx.ret)
        /\ ~(IsContextCancelled(cx.ret) /\ IsContextTimeout(cx.ret))

\* C18: FetchURL calls client.Do at most maxRetries+1 times, each time after a
\* test of ctx.Err() in the same iteration found nil, and before retry r it
\* waits 100ms * 2^(r-1). When the context is cancelled before the test of an
\* iteration, or while FetchURL is blocked in the backoff select, FetchURL
\* returns a NetworkError with Op "fetch", respectively "fetch_backoff", whose
\* Err is ctx.Err(), and calls client.Do no more.
C18_FetchURLAttemptsAndCancellation ==
    net.fn = "FetchURL" =>
        /\ net.attempts <= (IF net.maxRetries >= 0 THEN net.maxRetries + 1 ELSE 0)
        /\ net.pc = "inflight" =>
               (net.checkedAt = net.retry /\ net.attempts <= net.retry + 1)
        /\ \A r \in 1 .. Len(net.waits) : net.waits[r] = 100 * (2 ^ (r - 1))
        /\ net.pc \in {"select", "parked", "case78"} => Len(net.waits) = net.retry
        /\ (net.pc = "inflight" \/ (net.pc = "returned" /\ net.ret = <<>>)) =>
               Len(net.waits) = net.retry
        /\ net.cancelledAt \in {"idle", "check", "parked"} =>
               /\ net.attempts = net.attemptsAtCancel
               /\ net.startedCancelled = 0
               /\ net.pc \in {"idle", "check", "case78", "returned"}
               /\ net.pc = "returned" =>
                      \/ net.ret = [Op |-> IF net.cancelledAt = "parked"
                                           THEN "fetch_backoff" ELSE "fetch",
                                    Err |-> <<Canceled>>,
                                    Retries |-> net.retry]
                      \/ (net.cancelledAt = "idle" /\ net.maxRetries < 0)

C18_Witness ==
    /\ net.fn = "FetchURL"
    /\ net.maxRetries = MaxNetRetries
    /\ net.cancelledAt = "parked"
    /\ net.waits = <<100, 200>>
    /\ net.attempts = 2
    /\ net.pc = "returned"
    /\ net.ret = [Op |-> "fetch_backoff", Err |-> <<Canceled>>, Retries |-> 2]

\* C19: PostJSON starts no request attempt once the context has been cancelled,
\* also when the cancellation comes during the sleep before a retry.
C19_PostJSONNoRequestOnceCancelled ==
    net.fn = "PostJSON" =>
        /\ net.startedCancelled = 0
        /\ net.cancelledAt = "sleep" => net.attempts = net.attemptsAtCancel

\* C20: SafeExecute, SafeCall and ExecuteWithRecover let no panic of fn reach
\* the caller: when fn panicked they return, with an error that is not nil and
\* carries the panic value (a PanicError for SafeCall and ExecuteWithRecover);
\* when fn did not panic they return the result and the error of fn.
C20_PanicBecomesError ==
    pr.pc = "returned" =>
        /\ ~pr.panicking
        /\ pr.does.panics =>
               /\ pr.err # <<>>
               /\ pr.fn # "SafeExecute" => pr.err[1] = "PanicError"
        /\ ~pr.does.panics => (pr.result = pr.does.result /\ pr.err = pr.does.err)

(* min(MaxDelay, delay * Factor * jitterMultiplier) as a Duration, for the *)
(* jitter draw u (none when Jitter is 0).                                  *)
WaitFormula(o, delay, u) ==
    LET j == IF o.Jitter[1] > 0
             THEN <<u[2] * o.Jitter[2] + (2 * u[1] - u[2]) * o.Jitter[1], u[2] * o.Jitter[2]>>
             ELSE <<1, 1>>
        product == Trunc(delay * o.Factor[1] * j[1], o.Factor[2] * j[2])
    IN  IF product > o.MaxDelay THEN o.MaxDelay ELSE product

\* C21: each wait is min(MaxDelay, delay * Factor * jitterMultiplier), the
\* multiplier being 1 + (2u - 1) * Jitter for the draw u, where delay is
\* BaseDelay before the first wait and the wait before it afterwards; the
\* carried delay is the last wait.
C21_WaitIsCappedScaledJitteredDelay ==
    \A c \in Made :
        /\ \A i \in 1 .. Len(waits[c]) :
               waits[c][i] =
                   WaitFormula(opts,
                               IF i = 1 THEN opts.BaseDelay ELSE waits[c][i - 1],
                               IF opts.Jitter[1] > 0 THEN draws[c][i] ELSE <<0, 1>>)
        /\ waits[c] # <<>> => currentDelay[c] = Last(waits[c])

\* C24: with BaseDelay > 0, Factor > 1 and Jitter in [0, 1], every wait of
\* Retry is strictly positive and the carried delay is never zero or less,
\* whatever the jitter draws, durations being integers.
C24_WaitsStrictlyPositive ==
    \A c \in Made :
        (opts.BaseDelay > 0 /\ opts.Factor[1] > opts.Factor[2]
             /\ opts.Jitter[1] >= 0 /\ opts.Jitter[1] <= opts.Jitter[2]) =>
            /\ \A i \in 1 .. Len(waits[c]) : waits[c][i] > 0
            /\ pc[c] # "idle" => currentDelay[c] > 0

\* C22: firstErr is assigned at most once, to the error of the first worker
\* that locks mu with a non-nil error; a worker that locks mu later leaves it
\* as it is; simulateConcurrentOperations returns firstErr, which is nil
\* exactly when no worker recorded an error, that is when no worker had one.
C22_FirstErrorIsKept ==
    sim.pc # "unused" =>
        /\ Len(sim.assigns) <= 1
        /\ sim.firstErr = (IF sim.assigns = <<>> THEN Nil ELSE sim.assigns[1])
        /\ \A k \in 1 .. Len(sim.entered) : sim.w[sim.entered[k]].err # Nil
        /\ sim.assigns # <<>> =>
               /\ sim.entered # <<>>
               /\ sim.assigns[1] = sim.w[sim.entered[1]].err
        /\ (sim.entered # <<>> /\ sim.w[sim.entered[1]].pc # "critical") =>
               sim.assigns # <<>>
        /\ sim.pc = "returned" =>
               /\ sim.ret = sim.firstErr
               /\ sim.ret = Nil <=> sim.assigns = <<>>
               /\ sim.ret = Nil <=> \A id \in Workers : sim.w[id].err = Nil

(* The call returned the error of the first worker, and a worker whose      *)
(* error is another one went through the critical section after it.         *)
C22_Witness ==
    /\ sim.pc = "returned"
    /\ Len(sim.entered) >= 2
    /\ sim.ret = sim.w[sim.entered[1]].err
    /\ \E k \in 2 .. Len(sim.entered) : sim.w[sim.entered[k]].err # sim.ret

\* C23: simulateConcurrentOperations returns only when its three workers have
\* finished and the wait group is at zero, also after a failure and the
\* cancellation of the others, and every call returns in the end.
C23_WaitsForAllAndReturns ==
    /\ [](sim.pc = "returned" =>
              /\ sim.wg = 0
              /\ \A id \in Workers : sim.w[id].pc = "finished")
    /\ <>(sim.pc = "returned")

(* The call returned after one worker failed and the two others were        *)
(* cancelled.                                                               *)
C23_Witness ==
    /\ sim.pc = "returned"
    /\ \E id \in Workers :
           /\ sim.w[id].err = WorkerError(id)
           /\ \A o \in Workers \ {id} : sim.w[o].err = Canceled /\ sim.w[o].pc = "finished"

====
